---- MODULE Spec2Model ----
(***************************************************************************)
(* Download orchestration engine of telefetchr:                            *)
(*   app/services/download_service.py  (DownloadService)                   *)
(*   app/utils/state_manager.py        (StateManager)                      *)
(*   app/api/routes.py                 (clear-completed, reset, cleanup)   *)
(*                                                                         *)
(* The program runs on one asyncio event loop.  An action of this module   *)
(* is the code that runs between two suspension points (await) of one      *)
(* coroutine, so every interleaving of the actions is an interleaving the  *)
(* loop can produce.                                                       *)
(*                                                                         *)
(* Abstractions: byte counts of a transfer are not modelled (a progress    *)
(* tick is visible only through current_file_progress, 0 or positive);     *)
(* uuid4 values and timestamps are drawn from one logical clock that       *)
(* advances on every API call; None is NoneInt / NoneStr; a job id         *)
(* "file_<index>_<id>" is the tuple of its "_"-separated parts.            *)
(***************************************************************************)
EXTENDS Integers, Sequences, FiniteSets, TLC

VARIABLES
    status,     \* StateManager.download_status
    disk,       \* Config.STATE_FILE, its temporary file and the files renamed aside
    tasks,      \* the orchestration tasks (download_task, resume_task) and their workers
    registry,   \* DownloadService.active_download_tasks
    singles,    \* the download_single calls that wait for their transfer
    used,       \* API calls and failures so far
    limits,     \* how many of them the behaviour may have (never changes)
    last,       \* the step taken last and its outcome
    hist        \* history: the work set of the session started last, and the tasks
                \* that were running when cancel_download last set the flag

vars == <<status, disk, tasks, registry, singles, used, limits, last, hist>>

(* ------------------------------ bounds --------------------------------- *)
\* calls of the session operations (start, single download, cancel, resume),
\* calls of the administrative operations (clear-completed, reset, cleanup,
\* restart) and failures of the content source in one behaviour
MaxOps == 2
MaxAdmin == 1
MaxFaults == 1
\* calls of the session operations in a behaviour of SpecResume
ResumeOps == 3
\* calls of start, single download and cancel in a behaviour of SpecCancel
CancelOps == 4
\* calls and failures in a behaviour of SpecRetry
\* calls and failures in a behaviour of SpecLive
LiveOps == 3
LiveFaults == 1
RetryOps == 2
RetryFaults == 3

(* ------------------------- program constants --------------------------- *)
\* Config.MAX_CONCURRENT_DOWNLOADS = int(os.getenv(..., "3")); the model runs
\* the deployment MAX_CONCURRENT_DOWNLOADS=2 so that a three-item work set
\* needs two batches.
MAX_CONCURRENT_DOWNLOADS == 2
\* download_single_file(..., max_retries: int = 3)
max_retries == 3

NoneInt == -1
NoneStr == "None"
NoFid == <<>>

(* --------------------- the content source (Telegram) ------------------- *)
\* Messages of the one channel, newest first, as client.iter_messages yields
\* them; every message carries media.
ChannelName == "ch"
Channel == <<3, 2, 1>>
MediaKind(m) == IF m = 2 THEN "photo" ELSE "document"

\* request bodies the callers send
SelectedChoices == {<<4>>, <<1, 2, 3>>}
AllChoices == {[limit |-> 3, filter |-> "document"]}
SingleChoices == {3}

(* ------------------------------ helpers -------------------------------- *)
EmptyMap == [k \in {} |-> 0]
Put(f, k, v) == [y \in (DOMAIN f) \cup {k} |-> IF y = k THEN v ELSE f[y]]
Del(f, k) == [y \in (DOMAIN f) \ {k} |-> f[y]]
Min(a, b) == IF a < b THEN a ELSE b
Take(s, n) == SubSeq(s, 1, Min(n, Len(s)))
SeqToSet(s) == {s[n] : n \in 1..Len(s)}

\* StateManager._initialize_status
InitStatus(uuid) ==
    [active |-> FALSE, progress |-> 0, total |-> 0,
     current_file_progress |-> 0,
     concurrent_downloads |-> EmptyMap, completed_downloads |-> EmptyMap,
     cancelled |-> FALSE, session_id |-> uuid,
     started_at |-> NoneInt, channel |-> NoneStr]

\* a snapshot that leaves the completed map out as well
SnapshotWithoutCompleted(s) ==
    [active |-> s.active, progress |-> s.progress, total |-> s.total,
     current_file_progress |-> s.current_file_progress,
     completed_downloads |-> EmptyMap,
     cancelled |-> s.cancelled, session_id |-> s.session_id,
     started_at |-> s.started_at, channel |-> s.channel]

\* StateManager.save_state: state_to_save (concurrent_downloads is left out)
Snapshot(s) ==
    [active |-> s.active, progress |-> s.progress, total |-> s.total,
     current_file_progress |-> s.current_file_progress,
     completed_downloads |-> s.completed_downloads,
     cancelled |-> s.cancelled, session_id |-> s.session_id,
     started_at |-> s.started_at, channel |-> s.channel]

\* The files of the State Store.  state is what Config.STATE_FILE holds:
\* "absent", "valid" (one complete snapshot, content), "bad_json" (text that
\* json.load rejects) or "bad_bytes" (bytes that do not decode as text);
\* tmp is the file STATE_FILE + '.tmp'; aside are the files renamed or copied
\* to STATE_FILE + '.backup.<ts>' and STATE_FILE + '.corrupted.<ts>'.
NoContent == Snapshot(InitStatus(NoneInt))
NoFile == [state |-> "absent", content |-> NoContent, tmp |-> "absent", aside |-> {}]

\* StateManager.save_state: the snapshot is written to the temp file, then
\* os.replace moves the temp file over the state file
Saved(s) ==
    [state |-> "valid", content |-> Snapshot(s), tmp |-> "absent", aside |-> disk.aside]

\* a save that writes the snapshot into the state file itself and dies half-way
CrashedSaveInPlace(d) == [d EXCEPT !.state = "bad_json", !.content = NoContent]

\* save_state when the process dies after open(temp_file, 'w') and before
\* os.replace: the temp file holds a part of a snapshot, the state file is as
\* it was
CrashedSave(d) == [d EXCEPT !.tmp = "partial"]

\* the state file is copied (shutil.copy2) or renamed (os.rename) to a name
\* with the suffix kind
Aside(d, kind) ==
    IF d.state = "absent" THEN d.aside
    ELSE d.aside \cup {[kind |-> kind, state |-> d.state, content |-> d.content]}
Renamed(d, kind) ==
    IF d.state = "absent" THEN d
    ELSE [d EXCEPT !.state = "absent", !.content = NoContent, !.aside = Aside(d, kind)]

\* a load that restores the file as it is
LoadStateKeepsActive(s, d) ==
    IF d.state = "valid"
       /\ d.content.session_id # NoneInt /\ d.content.channel # NoneStr
    THEN LET c == d.content IN
         [active |-> c.active,
          progress |-> c.progress, total |-> c.total,
          current_file_progress |-> c.current_file_progress,
          concurrent_downloads |-> EmptyMap,
          completed_downloads |-> c.completed_downloads,
          cancelled |-> c.cancelled,
          session_id |-> c.session_id,
          started_at |-> c.started_at, channel |-> c.channel]
    ELSE s

\* StateManager.load_state into the status s of a fresh StateManager
LoadState(s, d) ==
    IF d.state = "valid"
       /\ d.content.session_id # NoneInt /\ d.content.channel # NoneStr
    THEN LET c == d.content IN
         [active |-> FALSE,
          progress |-> c.progress, total |-> c.total,
          current_file_progress |-> c.current_file_progress,
          concurrent_downloads |-> EmptyMap,
          completed_downloads |-> c.completed_downloads,
          cancelled |-> IF c.active THEN TRUE ELSE c.cancelled,
          session_id |-> c.session_id,
          started_at |-> c.started_at, channel |-> c.channel]
    ELSE s

\* StateManager.load_state, the files it leaves: json.JSONDecodeError goes to
\* _backup_corrupted_state, any other exception (UnicodeDecodeError of
\* f.read() among them) is logged only
LoadFiles(d) == IF d.state = "bad_json" THEN Renamed(d, "corrupted") ELSE d

\* DownloadService._get_file_name: a pure function of the message
FileName(m) == m

\* the record download_single_file / download_single put in completed_downloads
CompletedEntry(m, stamp) == [name |-> FileName(m), percentage |-> 100, completed_at |-> stamp]

\* the record download_single_file puts in concurrent_downloads
ConcurrentEntry(m, attempt) ==
    [name |-> FileName(m), retry_attempt |-> IF attempt > 0 THEN attempt + 1 ELSE 0]

\* f"file_{index}_{message.id}" and f"single_{message_id}", as their parts
BatchFileId(index, m) == <<"file", index, m>>
SingleFileId(m) == <<"single", m>>

\* resume_download: completed_ids, parsed back from the keys of completed_downloads
CompletedIds(completed) ==
    {fid[Len(fid)] : fid \in {f \in DOMAIN completed : Len(f) >= 3}}

\* a worker that does not look for "cancelled" in the message
IsCancelledMsgNever(e) == FALSE

\* classification of str(e) in download_single_file's except branch:
\* "cancelled" in error_msg.lower(), then "timeout" / "stalled" / "stuck" in it
IsCancelledMsg(e) == e \in {"cancelled_by_user", "stalled_and_cancelled"}
IsTimeoutMsg(e) == e \in {"stalled", "timeout", "stalled_and_cancelled"}

(* ------------------------------ initial -------------------------------- *)
\* main.lifespan: StateManager(), load_state() with no state file yet
Init ==
    /\ status = InitStatus(0)
    /\ disk = NoFile
    /\ tasks = EmptyMap
    /\ registry = EmptyMap
    /\ singles = {}
    /\ used = [ops |-> 0, admin |-> 0, faults |-> 0]
    /\ limits = [ops |-> MaxOps, admin |-> MaxAdmin, faults |-> MaxFaults]
    /\ last = [op |-> "init", out |-> "ok", fid |-> NoFid]
    /\ hist = [work |-> << >>, stopped |-> {}]

\* the logical clock behind uuid4() and datetime.now(): one tick per API call
clock == used.ops + used.admin
OpAllowed == used.ops < limits.ops
AdminAllowed == used.admin < limits.admin
FaultAllowed == used.faults < limits.faults
OpUsed == used' = [used EXCEPT !.ops = @ + 1] /\ UNCHANGED limits
AdminUsed == used' = [used EXCEPT !.admin = @ + 1] /\ UNCHANGED <<limits, hist>>
FaultUsed == used' = [used EXCEPT !.faults = @ + 1] /\ UNCHANGED <<limits, hist>>
NoneUsed == UNCHANGED <<used, limits, hist>>
\* an administrative call in which k file operations failed
AdminFaultsUsed(k) ==
    /\ used.faults + k <= limits.faults
    /\ used' = [used EXCEPT !.admin = @ + 1, !.faults = @ + k]
    /\ UNCHANGED <<limits, hist>>

Ret(op, out, fid) == [op |-> op, out |-> out, fid |-> fid]

NewTask(kind, ids, limit, filter, done) ==
    [kind |-> kind, pc |-> "fetch", ids |-> ids, limit |-> limit, filter |-> filter,
     completed_ids |-> done, msgs |-> << >>, i |-> 0, downloaded |-> 0,
     workers |-> EmptyMap]


\* asyncio.Task.done(): finished or cancelled tasks; a record is kept only while
\* one of its workers has not returned
Running(t) == t \in DOMAIN tasks /\ tasks[t].pc \in {"fetch", "gather"}
Unreturned(task) == {j \in DOMAIN task.workers : task.workers[j].st # "ret"}
Prune(tm) ==
    [t \in {u \in DOMAIN tm : tm[u].pc \in {"fetch", "gather"} \/ Unreturned(tm[u]) # {}}
        |-> tm[t]]

\* The ready queue of the event loop.  A child of gather is scheduled with
\* call_soon when it is created, and so is the wake-up of a cancelled child:
\* both run on the next iteration of the loop, before any callback that still
\* waits for I/O or for a timer (a request, a transfer, a sleep).
ReadyQueue ==
    {<<t, j>> \in UNION {{<<u, k>> : k \in DOMAIN tasks[u].workers} : u \in DOMAIN tasks} :
        \/ tasks[t].pc \in {"gather", "done"} /\ tasks[t].workers[j].st = "new"
        \/ tasks[t].pc = "cancelled" /\ tasks[t].workers[j].st = "xfer"}
Idle == ReadyQueue = {}

(* -------------------- Session Orchestrator: start ---------------------- *)
\* TelegramService.get_messages / iter_messages and the filters of the tasks
Resolve(task) ==
    IF task.kind = "selected"
    THEN SelectSeq(task.ids, LAMBDA m : m \in SeqToSet(Channel))
    ELSE IF task.kind = "all"
    THEN SelectSeq(Take(Channel, task.limit),
                   LAMBDA m : task.filter = NoneStr \/ task.filter = MediaKind(m))
    ELSE SelectSeq(Take(Channel, task.limit), LAMBDA m : m \notin task.completed_ids)

\* a start that keeps the completed jobs of the previous session
StartedKeepsCompleted(s, sid, total) ==
    [s EXCEPT !.active = TRUE, !.progress = 0, !.total = total,
              !.current_file_progress = 0,
              !.concurrent_downloads = EmptyMap,
              !.cancelled = FALSE, !.session_id = sid,
              !.started_at = sid, !.channel = ChannelName]

\* state_manager.update_status(...) of download_selected_files / download_all_files
Started(s, sid, total) ==
    [s EXCEPT !.active = TRUE, !.progress = 0, !.total = total,
              !.current_file_progress = 0,
              !.concurrent_downloads = EmptyMap,
              !.completed_downloads = EmptyMap,
              !.cancelled = FALSE, !.session_id = sid,
              !.started_at = sid, !.channel = ChannelName]

\* download_selected_files up to "return session_id" (no await in between)
StartSelected(ids) ==
    /\ Idle
    /\ OpAllowed /\ OpUsed
    /\ LET sid == clock + 1
           s == Started(status, sid, Len(ids))
       IN /\ status' = s
          /\ disk' = Saved(s)
          /\ tasks' = Put(tasks, sid, NewTask("selected", ids, 0, NoneStr, {}))
          /\ hist' = [work |-> Resolve(NewTask("selected", ids, 0, NoneStr, {})),
                      stopped |-> {}]
          /\ registry' = Put(registry, sid, sid)
          /\ last' = Ret("start_selected", "started", NoFid)
    /\ UNCHANGED singles

\* download_all_files up to "return session_id"
StartAll(req) ==
    /\ Idle
    /\ OpAllowed /\ OpUsed
    /\ LET sid == clock + 1
           s == Started(status, sid, 0)
       IN /\ status' = s
          /\ disk' = Saved(s)
          /\ tasks' = Put(tasks, sid, NewTask("all", << >>, req.limit, req.filter, {}))
          /\ hist' = [work |-> Resolve(NewTask("all", << >>, req.limit, req.filter, {})),
                      stopped |-> {}]
          /\ registry' = Put(registry, sid, sid)
          /\ last' = Ret("start_all", "started", NoFid)
    /\ UNCHANGED singles

(* ------------------ Session Orchestrator: batch loop ------------------- *)
\* indices (0-based, into msgs) of the batch that starts at offset i
BatchIdx(task, i) == {j \in i..(i + MAX_CONCURRENT_DOWNLOADS - 1) : j < Len(task.msgs)}

\* file_id of the worker for msgs[j]: i + idx, shifted by len(completed_ids) in resume_task
JobIndex(task, j) ==
    IF task.kind = "resume" THEN Cardinality(task.completed_ids) + j ELSE j

\* tasks.append(self.download_single_file(message, target_dir, file_id)) for a batch
SpawnBatch(task, i) ==
    LET kept == [j \in Unreturned(task) |-> task.workers[j]]
        fresh == [j \in BatchIdx(task, i) |->
                    [m |-> task.msgs[j + 1],
                     fid |-> BatchFileId(JobIndex(task, j), task.msgs[j + 1]),
                     st |-> "new", attempt |-> 0, waits |-> << >>, res |-> "pending"]]
    IN [task EXCEPT !.pc = "gather", !.i = i,
                    !.workers = [j \in (DOMAIN kept) \cup (DOMAIN fresh) |->
                                    IF j \in DOMAIN fresh THEN fresh[j] ELSE kept[j]]]

\* the lines after the for loop: active False, concurrent {}, (resume: progress), save
LoopTail(kind, s) ==
    [s EXCEPT !.active = FALSE, !.concurrent_downloads = EmptyMap,
              !.progress = IF kind = "resume"
                           THEN Cardinality(DOMAIN s.completed_downloads) ELSE @]

\* head of "for i in range(0, len(messages_to_download), MAX_CONCURRENT_DOWNLOADS)":
\* s and d are the status and the state file as the preceding lines left them
LoopHead(t, task, s, d, i) ==
    IF i >= Len(task.msgs) \/ s.cancelled
    THEN /\ status' = LoopTail(task.kind, s)
         /\ disk' = Saved(LoopTail(task.kind, s))
         /\ tasks' = Prune([tasks EXCEPT ![t] = [task EXCEPT !.pc = "done"]])
         /\ last' = Ret("task", IF i >= Len(task.msgs) THEN "finished" ELSE "stopped", NoFid)
    ELSE /\ status' = s
         /\ disk' = d
         /\ tasks' = [tasks EXCEPT ![t] = SpawnBatch(task, i)]
         /\ last' = Ret("task", "batch", NoFid)

\* a task that leaves the session active when there is nothing to download
NothingToDoStaysActive(s) == s

\* "if len(messages_to_download) == 0": status["active"] = False
NothingToDo(s) == [s EXCEPT !.active = FALSE]

\* download_task / resume_task from the return of the message fetch to the first gather
TaskFetch(t) ==
    /\ Idle
    /\ t \in DOMAIN tasks /\ tasks[t].pc = "fetch"
    /\ LET task == [tasks[t] EXCEPT !.msgs = Resolve(tasks[t])]
           n == Len(task.msgs)
       IN IF task.kind = "resume"
          THEN IF n = 0
               THEN LET s == [status EXCEPT !.active = FALSE, !.progress = status.total]
                    IN /\ status' = s
                       /\ disk' = Saved(s)
                       /\ tasks' = Prune([tasks EXCEPT ![t] = [task EXCEPT !.pc = "done"]])
                       /\ last' = Ret("task", "nothing", NoFid)
               ELSE LoopHead(t, task, status, disk, 0)
          ELSE LET s == [status EXCEPT !.total = n]
               IN IF n = 0
                  THEN /\ status' = NothingToDo(s)
                       /\ disk' = Saved(NothingToDo(s))
                       /\ tasks' = Prune([tasks EXCEPT ![t] = [task EXCEPT !.pc = "done"]])
                       /\ last' = Ret("task", "nothing", NoFid)
                  ELSE LoopHead(t, task, s, Saved(s), 0)
    /\ UNCHANGED <<registry, singles>>
    /\ NoneUsed

\* an except branch that also forgets the completed jobs
TaskAbortedDropsCompleted(s) ==
    [s EXCEPT !.active = FALSE, !.concurrent_downloads = EmptyMap,
              !.completed_downloads = EmptyMap]

\* the status lines of "except Exception as e:" in download_task / resume_task
TaskAborted(s) ==
    [s EXCEPT !.active = FALSE, !.concurrent_downloads = EmptyMap]

\* the "except Exception" branch of the tasks: the message fetch raised
TaskFetchFails(t) ==
    /\ Idle
    /\ FaultAllowed
    /\ t \in DOMAIN tasks /\ tasks[t].pc = "fetch"
    /\ LET s == TaskAborted(status)
       IN /\ status' = s
          /\ disk' = Saved(s)
    /\ tasks' = Prune([tasks EXCEPT ![t].pc = "done"])
    /\ last' = Ret("task", "error", NoFid)
    /\ UNCHANGED <<registry, singles>>
    /\ FaultUsed

\* a wait that returns as soon as one child is done
GatherDoneFirst(task) == \E j \in BatchIdx(task, task.i) : task.workers[j].st = "ret"

\* await asyncio.gather(*tasks, return_exceptions=True): every child is done
GatherDone(task) == \A j \in BatchIdx(task, task.i) : task.workers[j].st = "ret"

\* from the return of gather to the next gather or to the end of the task
TaskBatchDone(t) ==
    /\ Idle
    /\ t \in DOMAIN tasks /\ tasks[t].pc = "gather"
    /\ GatherDone(tasks[t])
    /\ LET task == tasks[t]
           k == Cardinality({j \in BatchIdx(task, task.i) : task.workers[j].res = "path"})
           counts == task.kind # "resume" /\ k > 0
           task2 == [task EXCEPT !.downloaded = @ + k]
           s == IF counts THEN [status EXCEPT !.progress = task.downloaded + k] ELSE status
           d == IF counts THEN Saved(s) ELSE disk
       IN LoopHead(t, task2, s, d, task.i + MAX_CONCURRENT_DOWNLOADS)
    /\ UNCHANGED <<registry, singles>>
    /\ NoneUsed

(* --------------------------- Transfer Worker --------------------------- *)
Worker(t, j) == tasks[t].workers[j]
WorkerLive(t, j) ==
    /\ t \in DOMAIN tasks /\ j \in DOMAIN tasks[t].workers
    /\ tasks[t].pc \in {"gather", "done"}

\* download_single_file, top of "for attempt in range(max_retries)" up to the
\* await of the transfer: the concurrent entry is registered and saved
WorkerBegin(t, j) ==
    /\ WorkerLive(t, j)
    /\ \/ Worker(t, j).st = "new"
       \/ Worker(t, j).st = "backoff" /\ Idle
    /\ LET w == Worker(t, j)
           s == [status EXCEPT !.concurrent_downloads =
                                   Put(@, w.fid, ConcurrentEntry(w.m, w.attempt))]
       IN /\ status' = s
          /\ disk' = Saved(s)
          /\ tasks' = [tasks EXCEPT ![t].workers[j].st = "xfer"]
          /\ last' = Ret("worker", "begin", w.fid)
    /\ UNCHANGED <<registry, singles>>
    /\ NoneUsed

\* "if file_path:" branch: the job moves from concurrent to completed, saved
WorkerSuccess(t, j) ==
    /\ Idle
    /\ WorkerLive(t, j) /\ Worker(t, j).st = "xfer"
    /\ LET w == Worker(t, j)
           s == [status EXCEPT !.completed_downloads = Put(@, w.fid, CompletedEntry(w.m, t)),
                               !.concurrent_downloads = Del(@, w.fid)]
       IN /\ status' = s
          /\ disk' = Saved(s)
          /\ tasks' = Prune([tasks EXCEPT ![t].workers[j].st = "ret",
                                          ![t].workers[j].res = "path"])
          /\ last' = Ret("worker", "success", w.fid)
    /\ UNCHANGED <<registry, singles>>
    /\ NoneUsed

\* "else:" branch: the transfer returned no path; return None
WorkerNoPath(t, j) ==
    /\ Idle
    /\ FaultAllowed
    /\ WorkerLive(t, j) /\ Worker(t, j).st = "xfer"
    /\ tasks' = Prune([tasks EXCEPT ![t].workers[j].st = "ret",
                                    ![t].workers[j].res = "nopath"])
    /\ last' = Ret("worker", "nopath", Worker(t, j).fid)
    /\ UNCHANGED <<status, disk, registry, singles>>
    /\ FaultUsed

\* wait_time = 2 ** attempt
WaitTime(attempt) == 2 ^ attempt

\* "except Exception as e:" of download_single_file for the error e of the attempt
ExceptBranch(t, j, e) ==
    LET w == Worker(t, j)
        s == [status EXCEPT !.concurrent_downloads = Del(@, w.fid)]
    IN IF IsCancelledMsg(e)
       THEN /\ status' = s
            /\ disk' = Saved(s)
            /\ tasks' = Prune([tasks EXCEPT ![t].workers[j].st = "ret",
                                            ![t].workers[j].res = "cancelled"])
            /\ last' = Ret("worker", "cancelled", w.fid)
       ELSE IF IsTimeoutMsg(e) /\ w.attempt < max_retries - 1
       THEN /\ tasks' = [tasks EXCEPT ![t].workers[j].st = "backoff",
                                      ![t].workers[j].waits = Append(@, WaitTime(w.attempt)),
                                      ![t].workers[j].attempt = @ + 1]
            /\ last' = Ret("worker", "retry", w.fid)
            /\ UNCHANGED <<status, disk>>
       ELSE /\ status' = s
            /\ disk' = Saved(s)
            /\ tasks' = Prune([tasks EXCEPT ![t].workers[j].st = "ret",
                                            ![t].workers[j].res = "failed"])
            /\ last' = Ret("worker", "failed", w.fid)

\* the attempt raised: progress_callback saw status["cancelled"], the monitor saw a
\* stall, wait_for timed out, or the content source failed
WorkerRaises(t, j, e) ==
    /\ Idle
    /\ WorkerLive(t, j) /\ Worker(t, j).st = "xfer"
    /\ e \in {"cancelled_by_user", "stalled", "timeout", "other"}
    /\ IF e = "cancelled_by_user"
       THEN status.cancelled /\ NoneUsed
       ELSE FaultAllowed /\ FaultUsed
    /\ ExceptBranch(t, j, e)
    /\ UNCHANGED <<registry, singles>>

\* progress_callback: if status["cancelled"]: raise Exception("Download cancelled by user")
WorkerSeesCancelled(t, j) == WorkerRaises(t, j, "cancelled_by_user")

\* the worker's task was cancelled with its orchestration task: wait_for raises
\* CancelledError, re-raised as "Download stalled and was cancelled"
WorkerCancelDelivered(t, j) ==
    /\ t \in DOMAIN tasks /\ j \in DOMAIN tasks[t].workers
    /\ tasks[t].pc = "cancelled" /\ Worker(t, j).st = "xfer"
    /\ ExceptBranch(t, j, "stalled_and_cancelled")
    /\ UNCHANGED <<registry, singles>>
    /\ NoneUsed

(* ------------------------ single-file download ------------------------- *)
\* download_single from the return of get_message to the await of download_media
DownloadSingle(m) ==
    /\ Idle
    /\ OpAllowed /\ OpUsed
    /\ LET now == clock + 1
           fid == SingleFileId(m)
           s == [status EXCEPT !.active = TRUE, !.current_file_progress = 0,
                               !.cancelled = FALSE, !.channel = ChannelName,
                               !.session_id = IF @ # NoneInt THEN @ ELSE now,
                               !.started_at = IF @ # NoneInt THEN @ ELSE now,
                               !.concurrent_downloads = Put(@, fid, ConcurrentEntry(m, 0))]
       IN /\ status' = s
          /\ disk' = Saved(s)
          /\ singles' = singles \cup {[id |-> now, m |-> m]}
          /\ last' = Ret("download_single", "begin", fid)
    /\ UNCHANGED <<tasks, registry, hist>>

\* download_single.progress_callback on a tick of the transfer
SingleTick(sg) ==
    /\ Idle
    /\ sg \in singles
    /\ ~status.cancelled
    /\ SingleFileId(sg.m) \in DOMAIN status.concurrent_downloads
    /\ status.current_file_progress = 0
    /\ status' = [status EXCEPT !.current_file_progress = 1]
    /\ disk' = Saved(status')
    /\ last' = Ret("download_single", "tick", SingleFileId(sg.m))
    /\ UNCHANGED <<tasks, registry, singles>>
    /\ NoneUsed

\* download_media raised because the callback saw status["cancelled"]: the
\* exception leaves download_single at the await, nothing is cleaned up
SingleCancelled(sg) ==
    /\ Idle
    /\ sg \in singles
    /\ status.cancelled
    /\ singles' = singles \ {sg}
    /\ last' = Ret("download_single", "cancelled", SingleFileId(sg.m))
    /\ UNCHANGED <<status, disk, tasks, registry>>
    /\ NoneUsed

\* download_media raised for another reason
SingleRaises(sg) ==
    /\ Idle
    /\ FaultAllowed
    /\ sg \in singles
    /\ singles' = singles \ {sg}
    /\ last' = Ret("download_single", "raised", SingleFileId(sg.m))
    /\ UNCHANGED <<status, disk, tasks, registry>>
    /\ FaultUsed

\* a single download that records the job as completed whatever the transfer returned
SingleAfterAlwaysCompleted(sg, ok) ==
    LET fid == SingleFileId(sg.m)
        s1 == [status EXCEPT !.completed_downloads = Put(@, fid, CompletedEntry(sg.m, sg.id)),
                             !.progress = Cardinality(DOMAIN status.completed_downloads
                                                      \cup {fid})]
    IN [s1 EXCEPT !.concurrent_downloads = Del(@, fid),
                  !.active = FALSE, !.current_file_progress = 0]

\* the lines of download_single after the await; ok = download_media returned a path
SingleAfter(sg, ok) ==
    LET fid == SingleFileId(sg.m)
        s1 == IF ok
              THEN [status EXCEPT !.completed_downloads = Put(@, fid, CompletedEntry(sg.m, sg.id)),
                                  !.progress = Cardinality(DOMAIN status.completed_downloads
                                                           \cup {fid})]
              ELSE status
    IN [s1 EXCEPT !.concurrent_downloads = Del(@, fid),
                  !.active = FALSE, !.current_file_progress = 0]

SingleSuccess(sg) ==
    /\ Idle
    /\ sg \in singles
    /\ status' = SingleAfter(sg, TRUE)
    /\ disk' = Saved(status')
    /\ singles' = singles \ {sg}
    /\ last' = Ret("download_single", "success", SingleFileId(sg.m))
    /\ UNCHANGED <<tasks, registry>>
    /\ NoneUsed

SingleNoPath(sg) ==
    /\ Idle
    /\ FaultAllowed
    /\ sg \in singles
    /\ status' = SingleAfter(sg, FALSE)
    /\ disk' = Saved(status')
    /\ singles' = singles \ {sg}
    /\ last' = Ret("download_single", "failed", SingleFileId(sg.m))
    /\ UNCHANGED <<tasks, registry>>
    /\ FaultUsed

(* --------------- Session Orchestrator: cancel and resume --------------- *)
\* task.cancel() on an orchestration task: it ends at its await; children of the
\* gather that are not inside a transfer end without touching the state
CancelTask(task) ==
    [task EXCEPT !.pc = "cancelled",
                 !.workers = [j \in DOMAIN @ |->
                                 IF @[j].st \in {"new", "backoff"}
                                 THEN [@[j] EXCEPT !.st = "ret", !.res = "cancelled"]
                                 ELSE @[j]]]

\* a cancel that leaves the in-flight jobs in concurrent_downloads
CancelledStatusKeepsJobs(s) ==
    [s EXCEPT !.active = FALSE,
              !.progress = Cardinality(DOMAIN s.completed_downloads),
              !.current_file_progress = 0,
              !.cancelled = TRUE]

\* cancel_download: the status.update({...}) after the task is cancelled
CancelledStatus(s) ==
    [s EXCEPT !.active = FALSE,
              !.progress = Cardinality(DOMAIN s.completed_downloads),
              !.current_file_progress = 0,
              !.concurrent_downloads = EmptyMap,
              !.cancelled = TRUE]

\* a cancel that never answers "nothing to cancel"
CanCancelAlways(s) == TRUE

\* cancel_download: if status["active"] or status.get("current_file_progress", 0) > 0
CanCancel(s) == s.active \/ s.current_file_progress > 0

\* cancel_download (no await inside)
CancelDownload ==
    /\ Idle
    /\ OpAllowed /\ OpUsed
    /\ IF CanCancel(status)
       THEN LET sid == status.session_id
                tracked == sid # NoneInt /\ sid \in DOMAIN registry
                s == CancelledStatus(status)
            IN /\ status' = s
               /\ disk' = Saved(s)
               /\ tasks' = IF tracked /\ Running(registry[sid])
                           THEN Prune([tasks EXCEPT ![registry[sid]] = CancelTask(@)])
                           ELSE tasks
               /\ registry' = IF tracked THEN Del(registry, sid) ELSE registry
               /\ last' = Ret("cancel", "success", NoFid)
               /\ hist' = [hist EXCEPT !.stopped = {t \in DOMAIN tasks' : tasks'[t].pc \in {"fetch", "gather"}}]
       ELSE /\ last' = Ret("cancel", "info", NoFid)
            /\ UNCHANGED <<status, disk, tasks, registry, hist>>
    /\ UNCHANGED singles

\* a resume that does not look at active
ResumeOutcomeIgnoresActive(s) == IF s.channel = NoneStr THEN "error" ELSE "resumed"

\* resume_download: the two early returns
ResumeOutcome(s) ==
    IF s.channel = NoneStr THEN "error"
    ELSE IF s.active THEN "info"
    ELSE "resumed"

\* a resume that leaves the setting of active to its task
ResumedSetsActiveLater(s) == [s EXCEPT !.cancelled = FALSE]

\* resume_download: status["active"] = True; status["cancelled"] = False
Resumed(s) == [s EXCEPT !.active = TRUE, !.cancelled = FALSE]

\* resume_download up to its return (no await inside)
ResumeDownload ==
    /\ Idle
    /\ OpAllowed /\ OpUsed
    /\ IF ResumeOutcome(status) # "resumed"
       THEN /\ last' = Ret("resume", ResumeOutcome(status), NoFid)
            /\ UNCHANGED <<status, disk, tasks, registry, hist>>
       ELSE LET tid == clock + 1
                s == Resumed(status)
                task_id == IF status.session_id # NoneInt THEN status.session_id ELSE tid
            IN /\ disk' = Saved(s)
               /\ status' = [s EXCEPT !.session_id = task_id]
               /\ tasks' = Put(tasks, tid,
                               NewTask("resume", << >>, status.total, NoneStr,
                                       CompletedIds(status.completed_downloads)))
               /\ registry' = Put(registry, task_id, tid)
               /\ last' = Ret("resume", "resumed", NoFid)
               /\ hist' = [hist EXCEPT !.stopped = {}]
    /\ UNCHANGED singles

(* ------------------------ administrative routes ------------------------ *)
\* a clear that keeps the channel of an inactive session on record
ClearedKeepsChannel(s) ==
    IF s.active
    THEN [s EXCEPT !.completed_downloads = EmptyMap]
    ELSE [s EXCEPT !.completed_downloads = EmptyMap,
                   !.session_id = NoneInt,
                   !.started_at = NoneInt, !.total = 0,
                   !.progress = 0, !.cancelled = FALSE]

\* clear_completed_downloads: the writes to the status
Cleared(s) ==
    IF s.active
    THEN [s EXCEPT !.completed_downloads = EmptyMap]
    ELSE [s EXCEPT !.completed_downloads = EmptyMap,
                   !.session_id = NoneInt, !.channel = NoneStr,
                   !.started_at = NoneInt, !.total = 0,
                   !.progress = 0, !.cancelled = FALSE]

\* routes.clear_completed_downloads
ClearCompleted ==
    /\ Idle
    /\ AdminAllowed /\ AdminUsed
    /\ LET s == Cleared(status)
       IN /\ status' = s
          /\ disk' = Saved(s)
    /\ last' = Ret("clear_completed", "success", NoFid)
    /\ UNCHANGED <<tasks, registry, singles>>

\* routes.reset_state -> StateManager.clear_state: the file is renamed to a backup
\* and the status is re-initialised (with a new uuid); nothing is saved
ResetState ==
    /\ Idle
    /\ AdminAllowed
    /\ \E copied, renamed \in BOOLEAN :
          \* shutil.copy2 and os.rename are only called when the file exists
          /\ disk.state = "absent" => copied /\ renamed
          /\ AdminFaultsUsed((IF copied THEN 0 ELSE 1) + (IF renamed THEN 0 ELSE 1))
          /\ LET d == IF copied THEN [disk EXCEPT !.aside = Aside(disk, "backup")] ELSE disk
             IN IF renamed
                THEN /\ status' = InitStatus(clock + 1)
                     /\ disk' = Renamed(d, "backup")
                \* os.rename raised: clear_state logs it and skips the update
                ELSE /\ status' = status
                     /\ disk' = d
    /\ last' = Ret("reset", "success", NoFid)
    /\ UNCHANGED <<tasks, registry, singles>>

\* routes.cleanup_state -> StateManager.cleanup_state
CleanupState ==
    /\ Idle
    /\ AdminAllowed
    /\ \E copied \in BOOLEAN :
          \* shutil.copy2 is only called when the file exists; its failure is logged
          /\ disk.state = "absent" => copied
          /\ AdminFaultsUsed(IF copied THEN 0 ELSE 1)
          /\ LET s1 == IF ~status.active
                       THEN [status EXCEPT !.concurrent_downloads = EmptyMap,
                                           !.current_file_progress = 0]
                       ELSE status
                 s2 == IF DOMAIN s1.completed_downloads = {} /\ s1.channel = NoneStr
                       THEN InitStatus(clock + 1)
                       ELSE s1
             IN /\ status' = s2
                /\ disk' = [Saved(s2) EXCEPT
                              !.aside = IF copied THEN Aside(disk, "backup") ELSE disk.aside]
    /\ last' = Ret("cleanup", "success", NoFid)
    /\ UNCHANGED <<tasks, registry, singles>>

\* the process dies, at an await or inside a save_state (torn), and is started
\* again: main.lifespan builds a new StateManager and DownloadService and calls
\* load_state
CrashRestart ==
    /\ Idle
    /\ AdminAllowed /\ AdminUsed
    /\ \E torn \in BOOLEAN :
          LET d == IF torn THEN CrashedSave(disk) ELSE disk
          IN /\ status' = LoadState(InitStatus(clock + 1), d)
             /\ disk' = LoadFiles(d)
    /\ tasks' = EmptyMap
    /\ registry' = EmptyMap
    /\ singles' = {}
    /\ last' = Ret("restart", "loaded", NoFid)

\* the state file is damaged from outside the program (a failing disk, an
\* editor): its content is no longer a JSON document
FileDamaged ==
    /\ Idle
    /\ FaultAllowed /\ FaultUsed
    /\ disk.state = "valid"
    /\ \E kind \in {"bad_json", "bad_bytes"} :
          disk' = [disk EXCEPT !.state = kind, !.content = NoContent]
    /\ last' = Ret("damage", "ok", NoFid)
    /\ UNCHANGED <<status, tasks, registry, singles>>

(* --------------------------- specification ----------------------------- *)
SessionCalls ==
    \/ \E ids \in SelectedChoices : StartSelected(ids)
    \/ \E req \in AllChoices : StartAll(req)
    \/ \E m \in SingleChoices : DownloadSingle(m)
    \/ CancelDownload
    \/ ResumeDownload

AdminCalls ==
    \/ ClearCompleted
    \/ ResetState
    \/ CleanupState
    \/ CrashRestart

\* the steps of the tasks, workers and single downloads when nothing fails
Steps ==
    \/ \E t \in DOMAIN tasks : TaskFetch(t)
    \/ \E t \in DOMAIN tasks : TaskBatchDone(t)
    \/ \E t \in DOMAIN tasks : \E j \in DOMAIN tasks[t].workers : WorkerBegin(t, j)
    \/ \E t \in DOMAIN tasks : \E j \in DOMAIN tasks[t].workers : WorkerSuccess(t, j)
    \/ \E t \in DOMAIN tasks : \E j \in DOMAIN tasks[t].workers : WorkerCancelDelivered(t, j)
    \/ \E sg \in singles : SingleTick(sg)
    \/ \E sg \in singles : SingleCancelled(sg)
    \/ \E sg \in singles : SingleSuccess(sg)

\* the steps in which the content source fails
Failures ==
    \/ \E t \in DOMAIN tasks : TaskFetchFails(t)
    \/ \E t \in DOMAIN tasks : \E j \in DOMAIN tasks[t].workers : WorkerNoPath(t, j)
    \/ \E t \in DOMAIN tasks : \E j \in DOMAIN tasks[t].workers :
          \E e \in {"cancelled_by_user", "stalled", "timeout", "other"} : WorkerRaises(t, j, e)
    \/ \E sg \in singles : SingleRaises(sg)
    \/ \E sg \in singles : SingleNoPath(sg)

Next == SessionCalls \/ AdminCalls \/ Steps \/ Failures

Spec == Init /\ [][Next]_vars

\* sessions that are started, cancelled and resumed while the content source works
InitResume ==
    /\ status = InitStatus(0)
    /\ disk = NoFile
    /\ tasks = EmptyMap
    /\ registry = EmptyMap
    /\ singles = {}
    /\ used = [ops |-> 0, admin |-> 0, faults |-> 0]
    /\ limits = [ops |-> ResumeOps, admin |-> 0, faults |-> 0]
    /\ last = [op |-> "init", out |-> "ok", fid |-> NoFid]
    /\ hist = [work |-> << >>, stopped |-> {}]

\* the steps of the workers of a task that cancel_download did not cancel
FlagSteps ==
    \E t \in DOMAIN tasks : \E j \in DOMAIN tasks[t].workers : WorkerSeesCancelled(t, j)

NextResume == SessionCalls \/ Steps \/ FlagSteps

SpecResume == InitResume /\ [][NextResume]_vars

\* the State Store when the state file can be damaged between two runs
StoreFailures == FileDamaged

NextStore == SessionCalls \/ AdminCalls \/ Steps \/ StoreFailures

SpecStore == Init /\ [][NextStore]_vars

\* one session whose transfers stall, time out and fail
InitRetry ==
    /\ status = InitStatus(0)
    /\ disk = NoFile
    /\ tasks = EmptyMap
    /\ registry = EmptyMap
    /\ singles = {}
    /\ used = [ops |-> 0, admin |-> 0, faults |-> 0]
    /\ limits = [ops |-> RetryOps, admin |-> 0, faults |-> RetryFaults]
    /\ last = [op |-> "init", out |-> "ok", fid |-> NoFid]
    /\ hist = [work |-> << >>, stopped |-> {}]

NextRetry == SessionCalls \/ Steps \/ Failures

SpecRetry == InitRetry /\ [][NextRetry]_vars

\* sessions over a work set of several batches that are started by the first
\* two calls, then cancelled and joined by single-file downloads
CancelCalls ==
    \/ /\ used.ops < 2
       /\ \E ids \in {c \in SelectedChoices : Len(c) > MAX_CONCURRENT_DOWNLOADS} :
             StartSelected(ids)
    \/ \E m \in SingleChoices : DownloadSingle(m)
    \/ CancelDownload

InitCancel ==
    /\ status = InitStatus(0)
    /\ disk = NoFile
    /\ tasks = EmptyMap
    /\ registry = EmptyMap
    /\ singles = {}
    /\ used = [ops |-> 0, admin |-> 0, faults |-> 0]
    /\ limits = [ops |-> CancelOps, admin |-> 0, faults |-> 0]
    /\ last = [op |-> "init", out |-> "ok", fid |-> NoFid]
    /\ hist = [work |-> << >>, stopped |-> {}]

NextCancel == CancelCalls \/ Steps \/ FlagSteps

SpecCancel == InitCancel /\ [][NextCancel]_vars

\* callers that start a session or a single-file download only when the status
\* shows no active one
SoloCalls ==
    \/ ~status.active /\ \E ids \in SelectedChoices : StartSelected(ids)
    \/ ~status.active /\ \E req \in AllChoices : StartAll(req)
    \/ ~status.active /\ \E m \in SingleChoices : DownloadSingle(m)
    \/ CancelDownload
    \/ ResumeDownload

NextSolo == SoloCalls \/ Steps

SpecSolo == InitResume /\ [][NextSolo]_vars

\* one session, started by the first call, that is joined by single-file
\* downloads, cancelled and resumed, and whose transfers may fail, runs to its
\* end: the event loop runs every ready callback, and every transfer attempt ends
LiveCalls ==
    \/ used.ops = 0 /\ \E ids \in SelectedChoices : StartSelected(ids)
    \/ used.ops = 0 /\ \E req \in AllChoices : StartAll(req)
    \/ \E m \in SingleChoices : DownloadSingle(m)
    \/ CancelDownload
    \/ ResumeDownload

InitLive ==
    /\ status = InitStatus(0)
    /\ disk = NoFile
    /\ tasks = EmptyMap
    /\ registry = EmptyMap
    /\ singles = {}
    /\ used = [ops |-> 0, admin |-> 0, faults |-> 0]
    /\ limits = [ops |-> LiveOps, admin |-> 0, faults |-> LiveFaults]
    /\ last = [op |-> "init", out |-> "ok", fid |-> NoFid]
    /\ hist = [work |-> << >>, stopped |-> {}]

NextLive == LiveCalls \/ Steps \/ Failures

SpecLive == InitLive /\ [][NextLive]_vars /\ WF_vars(Steps)

TypeOK ==
    /\ status.progress >= 0
    /\ used.ops <= limits.ops /\ used.admin <= limits.admin /\ used.faults <= limits.faults

(* ------------------------------- claims -------------------------------- *)
\* message ids that have an entry in a completed map, whatever wrote the entry
IdsOf(completed) == {fid[Len(fid)] : fid \in DOMAIN completed}

\* workers that have started and not yet returned, and single downloads in transfer
InFlight ==
    Cardinality({tj \in UNION {{<<t, j>> : j \in DOMAIN tasks[t].workers} : t \in DOMAIN tasks} :
                    tasks[tj[1]].workers[tj[2]].st \in {"xfer", "backoff"}})
    + Cardinality(singles)

\* C1: in every reachable state at most one orchestration task (the batch loop
\* of a start or of a resume) is running.
C1_OneOrchestrationTask == Cardinality({t \in DOMAIN tasks : Running(t)}) <= 1

\* C2: a start (start_selected or start_all) issued while a session is active
\* returns the AlreadyActive outcome, starts no task and leaves session_id,
\* total, progress and the completed map of the running session unchanged.
C2_StartWhileActiveRejected ==
    [][(status.active /\ last'.op \in {"start_selected", "start_all"})
        => /\ last'.out = "already_active"
           /\ tasks' = tasks
           /\ status'.session_id = status.session_id
           /\ status'.total = status.total
           /\ status'.progress = status.progress
           /\ status'.completed_downloads = status.completed_downloads]_vars

\* C3: in every reachable state no job id is a key of both concurrent_downloads
\* and completed_downloads.
C3_JobInOneMap ==
    (DOMAIN status.concurrent_downloads) \cap (DOMAIN status.completed_downloads) = {}

\* C4: when download_single_file has just returned (success, no path, cancel,
\* non-retryable error or retries exhausted), its job id is not a key of
\* concurrent_downloads.
C4_WorkerLeavesNoConcurrentEntry ==
    (last.op = "worker" /\ last.out \in {"success", "nopath", "cancelled", "failed"})
        => last.fid \notin DOMAIN status.concurrent_downloads

C6_ResumeTransfersRemainingWorkSet ==
    [][(status.cancelled /\ last'.op = "resume" /\ last'.out = "resumed")
        => \A t \in (DOMAIN tasks') \ (DOMAIN tasks) :
              SeqToSet(Resolve(tasks'[t]))
                  = SeqToSet(hist.work) \ IdsOf(status.completed_downloads)]_vars

\* C7: a worker of a resume task never starts a transfer for an item whose id
\* has an entry in completed_downloads, whether a batch job or a single-file
\* download wrote the entry.
C7_ResumeSkipsCompleted ==
    [][\A t \in (DOMAIN tasks) \cap (DOMAIN tasks') :
          tasks[t].kind = "resume"
          => \A j \in (DOMAIN tasks[t].workers) \cap (DOMAIN tasks'[t].workers) :
                (tasks[t].workers[j].st # "xfer" /\ tasks'[t].workers[j].st = "xfer")
                => tasks[t].workers[j].m \notin IdsOf(status.completed_downloads)]_vars

\* C8: in every reachable state the number of transfers in flight is at most
\* MAX_CONCURRENT_DOWNLOADS.
C8_InFlightWithinLimit == InFlight <= MAX_CONCURRENT_DOWNLOADS

\* C9: within one orchestration task, a worker of a later batch exists only when
\* every worker of the earlier batches has returned.
C9_BatchesInOrder ==
    \A t \in DOMAIN tasks :
        \A j, k \in DOMAIN tasks[t].workers :
            (j \div MAX_CONCURRENT_DOWNLOADS) < (k \div MAX_CONCURRENT_DOWNLOADS)
                => tasks[t].workers[j].st = "ret"

\* the second batch of a task is in transfer
C9_Witness ==
    \E t \in DOMAIN tasks :
        /\ tasks[t].pc = "gather" /\ tasks[t].i = MAX_CONCURRENT_DOWNLOADS
        /\ \E k \in DOMAIN tasks[t].workers :
              k >= MAX_CONCURRENT_DOWNLOADS /\ tasks[t].workers[k].st = "xfer"

\* C10: at every point, a crash followed by load_state on restart yields a
\* completed map that holds every job whose worker has returned success.
C10_CompletedSurvivesCrash ==
    \A fid \in DOMAIN status.completed_downloads :
        fid \in DOMAIN LoadState(InitStatus(NoneInt), disk).completed_downloads

\* the snapshot without the per-tick progress counter
SessionFields(c) ==
    [active |-> c.active, progress |-> c.progress, total |-> c.total,
     completed_downloads |-> c.completed_downloads,
     cancelled |-> c.cancelled, session_id |-> c.session_id,
     started_at |-> c.started_at, channel |-> c.channel]

\* C11: when a state-mutating operation (start, cancel, resume, clear_completed,
\* reset, cleanup, load, worker completion) has just returned, the state file
\* holds the snapshot of the in-memory status (all fields but
\* concurrent_downloads and the per-tick progress counter).  A missing file
\* counts as the snapshot of the default status.
C11_MutationsAreSaved ==
    (\/ last.op \in {"start_selected", "start_all"} /\ last.out = "started"
     \/ last.op = "cancel" /\ last.out = "success"
     \/ last.op = "resume" /\ last.out = "resumed"
     \/ last.op \in {"clear_completed", "reset", "cleanup", "restart"}
     \/ last.op = "worker" /\ last.out = "success")
        => \/ /\ disk.state = "valid"
              /\ SessionFields(disk.content) = SessionFields(Snapshot(status))
           \/ /\ disk.state = "absent"
              /\ SessionFields(Snapshot(status))
                    = SessionFields(Snapshot(InitStatus(status.session_id)))

\* C12: at every instant, a crash between the write of the temporary file and
\* the rename included, the state file is absent or holds one complete
\* snapshot; a reader never finds a partly written one.
\* (No load_state has met a file it had to rename aside as corrupted, and every
\* file kept aside is a complete snapshot.)
C12_FileAbsentOrComplete ==
    /\ disk.state \in {"absent", "valid"}
    /\ LoadFiles(disk) = disk
    /\ \A b \in disk.aside : b.kind = "backup" /\ b.state = "valid"

\* the process died inside a save and has restarted: the temporary file is
\* partial, the state file is the complete snapshot of an earlier save
C12_Witness ==
    /\ last.op = "restart"
    /\ disk.tmp = "partial"
    /\ disk.state = "valid"
    /\ disk.content.completed_downloads # EmptyMap

\* the status of a fresh State Store after save() of the current status and load()
RoundTrip == LoadState(InitStatus(clock + 1), Saved(status))

\* C13: for every reachable in-memory state, save() followed by load() into a
\* fresh State Store yields the same active, progress, total, cancelled,
\* session_id, started_at, channel and completed map, with
\* concurrent_downloads empty.
C13_RoundTripIsIdentity ==
    /\ SessionFields(Snapshot(RoundTrip)) = SessionFields(Snapshot(status))
    /\ RoundTrip.concurrent_downloads = EmptyMap

\* C13 (amended): for every reachable in-memory state with a session_id and a
\* channel on record, save() followed by load() into a fresh State Store yields
\* the same progress, total, session_id, started_at, channel and completed map,
\* with concurrent_downloads empty, active = false, and cancelled = true when
\* the saved state was active and as saved otherwise.
C13_RoundTripSanitized ==
    (status.session_id # NoneInt /\ status.channel # NoneStr)
        => /\ RoundTrip.progress = status.progress
           /\ RoundTrip.total = status.total
           /\ RoundTrip.session_id = status.session_id
           /\ RoundTrip.started_at = status.started_at
           /\ RoundTrip.channel = status.channel
           /\ RoundTrip.completed_downloads = status.completed_downloads
           /\ RoundTrip.concurrent_downloads = EmptyMap
           /\ ~RoundTrip.active
           /\ RoundTrip.cancelled = (status.active \/ status.cancelled)

\* an active session with a completed job and a job in transfer
C13_Witness ==
    /\ status.active /\ ~status.cancelled
    /\ status.channel # NoneStr
    /\ status.completed_downloads # EmptyMap
    /\ status.concurrent_downloads # EmptyMap
    /\ RoundTrip.completed_downloads = status.completed_downloads

\* C14: when the state file is syntactically invalid, load() does not raise,
\* leaves the in-memory status equal to the default empty state, and afterwards
\* the file no longer exists under its name but exists under a
\* corrupted-backup name.
C14_CorruptFileSetAside ==
    [][(disk.state \in {"bad_json", "bad_bytes"} /\ last'.op = "restart")
        => /\ last'.out = "loaded"
           /\ status' = InitStatus(status'.session_id)
           /\ disk'.state = "absent"
           /\ \E b \in disk'.aside : b.kind = "corrupted" /\ b.state = disk.state]_vars

\* C15: after load() returns, whatever the state file held, active = false and
\* concurrent_downloads is empty; and if the file recorded active = true for a
\* session, cancelled = true after the load.
C15_LoadSanitizes ==
    [][last'.op = "restart"
        => /\ ~status'.active
           /\ status'.concurrent_downloads = EmptyMap
           /\ (disk.state = "valid" /\ disk.content.active) => status'.cancelled]_vars

\* a load has just restored a file that was saved by an active session with a
\* completed job
C15_Witness ==
    /\ last.op = "restart"
    /\ disk.state = "valid" /\ disk.content.active
    /\ ~status.active /\ status.cancelled
    /\ status.completed_downloads # EmptyMap

\* the workers of all tasks, as <<task, index>>
Workers == UNION {{<<t, j>> : j \in DOMAIN tasks[t].workers} : t \in DOMAIN tasks}

\* worker tj has returned in this step
Returned(tj) ==
    /\ tasks[tj[1]].workers[tj[2]].st # "ret"
    /\ \/ tj[1] \notin DOMAIN tasks'
       \/ tj[2] \notin DOMAIN tasks'[tj[1]].workers
       \/ tasks'[tj[1]].workers[tj[2]].st = "ret"

\* C16: a worker whose every attempt ends in a stall or timeout makes at most
\* max_retries (3) attempts, waits a strictly larger backoff before each
\* successive retry, then returns no result without raising, and its job id is
\* absent from completed_downloads.
C16_RetriesBoundedThenSkipped ==
    [][\A tj \in Workers :
          LET w == tasks[tj[1]].workers[tj[2]]
          IN /\ w.attempt < max_retries
             /\ \A a, b \in 1..Len(w.waits) : a < b => w.waits[a] < w.waits[b]
             /\ (w.st = "xfer" /\ w.attempt = max_retries - 1 /\ Returned(tj)
                 /\ last'.op = "worker" /\ last'.out = "failed")
                    => /\ Len(w.waits) = max_retries - 1
                       /\ last'.fid = w.fid
                       /\ w.fid \notin DOMAIN status'.completed_downloads]_vars

\* worker tj has taken this step
Acted(tj) ==
    \/ tj[1] \notin DOMAIN tasks'
    \/ tj[2] \notin DOMAIN tasks'[tj[1]].workers
    \/ tasks'[tj[1]].workers[tj[2]] # tasks[tj[1]].workers[tj[2]]

\* C17: when a worker's attempt fails because the shared cancelled flag is set
\* (the step of a worker in transfer, in a task that was not cancelled, that is
\* neither a success nor a failure of the content source), the worker makes no
\* further attempt, its job is not in concurrent_downloads, and it returns no
\* result without raising.
C17_CancelledWorkerReturns ==
    [][\A tj \in Workers :
          LET w == tasks[tj[1]].workers[tj[2]]
          IN (/\ status.cancelled
              /\ tasks[tj[1]].pc # "cancelled" /\ w.st = "xfer"
              /\ Acted(tj)
              /\ last'.op = "worker" /\ last'.out # "success"
              /\ used' = used)
                 => /\ last'.out = "cancelled"
                    /\ last'.fid = w.fid
                    /\ Returned(tj)
                    /\ w.fid \notin DOMAIN status'.concurrent_downloads
                    /\ w.fid \notin DOMAIN status'.completed_downloads
                         \ DOMAIN status.completed_downloads]_vars

\* a worker of a task that is still running has returned because it saw the flag
C17_Witness ==
    /\ status.cancelled
    /\ last.op = "worker" /\ last.out = "cancelled"
    /\ last.fid \notin DOMAIN status.concurrent_downloads
    /\ \E t \in DOMAIN tasks :
          /\ tasks[t].pc = "gather"
          /\ \E j \in DOMAIN tasks[t].workers :
                /\ tasks[t].workers[j].fid = last.fid
                /\ tasks[t].workers[j].st = "ret"
                /\ tasks[t].workers[j].res = "cancelled"

\* C18: resume() returns the NoSession outcome ("error") when no channel is on
\* record and the AlreadyActive outcome ("info") when active = true; in both
\* cases it starts no task and changes no field of the state.
C18_ResumeRejected ==
    [][last'.op = "resume"
        => /\ status.channel = NoneStr => last'.out = "error"
           /\ status.active => last'.out = "info"
           /\ (status.channel = NoneStr \/ status.active)
                 => /\ status' = status
                    /\ disk' = disk
                    /\ tasks' = tasks
                    /\ registry' = registry
                    /\ singles' = singles]_vars

\* resume has just answered "already in progress" to a session with a transfer
\* in flight
C18_Witness ==
    /\ last.op = "resume" /\ last.out = "info"
    /\ status.active
    /\ \E tj \in Workers : tasks[tj[1]].workers[tj[2]].st = "xfer"

\* resume has just answered "no saved session" to a state with no channel
C18_WitnessNoSession ==
    /\ last.op = "resume" /\ last.out = "error"
    /\ status.channel = NoneStr

\* C19: cancel() called when active = false and current_file_progress = 0
\* returns the info outcome and leaves every field of the in-memory state
\* (session_id, cancelled and the completed map among them) and the task
\* registry unchanged.
C19_CancelWhenIdleIsNoOp ==
    [][(last'.op = "cancel" /\ ~status.active /\ status.current_file_progress = 0)
        => /\ last'.out = "info"
           /\ status' = status
           /\ registry' = registry
           /\ tasks' = tasks
           /\ disk' = disk]_vars

\* cancel has just answered "nothing to cancel" to a finished session that has
\* completed jobs and a registry entry
C19_Witness ==
    /\ last.op = "cancel" /\ last.out = "info"
    /\ ~status.active /\ ~status.cancelled
    /\ status.completed_downloads # EmptyMap
    /\ registry # EmptyMap

\* task t has started a batch in this step
BatchStarted(t) ==
    /\ t \in DOMAIN tasks' /\ tasks'[t].pc = "gather"
    /\ tasks[t].pc = "fetch" \/ tasks'[t].i # tasks[t].i

\* the task of the current session was created by a start and is running
StartSessionRuns ==
    /\ status.session_id \in DOMAIN registry
    /\ Running(registry[status.session_id])
    /\ tasks[registry[status.session_id]].kind \in {"selected", "all"}

\* C20: for n resolved items and concurrency limit c, an uncancelled session
\* processes consecutive batches of sizes c, ..., c and a last batch of n mod c
\* when that is not zero; progress never decreases during the session and grows
\* by at most c per batch.
C20_BatchSizesAndProgress ==
    [][/\ \A t \in DOMAIN tasks :
             BatchStarted(t)
             => LET n == Len(tasks'[t].msgs)
                    i == tasks'[t].i
                    batch == {j \in DOMAIN tasks'[t].workers : tasks'[t].workers[j].st = "new"}
                IN /\ i % MAX_CONCURRENT_DOWNLOADS = 0
                   /\ i = IF tasks[t].pc = "fetch" THEN 0
                                                  ELSE tasks[t].i + MAX_CONCURRENT_DOWNLOADS
                   /\ batch = i..(i + Min(MAX_CONCURRENT_DOWNLOADS, n - i) - 1)
       /\ (StartSessionRuns
           /\ status'.session_id = status.session_id
           /\ ~status.cancelled /\ ~status'.cancelled)
             => /\ status'.progress >= status.progress
                /\ last'.op = "task"
                      => status'.progress <= status.progress + MAX_CONCURRENT_DOWNLOADS]_vars

\* C21: once cancel() has set cancelled = true, no orchestration task that was
\* running at that moment starts a further batch, so that the items of the
\* batches not yet started stay out of completed_downloads, until a later
\* resume or start (hist.stopped holds these tasks from the cancel to the next
\* start or resume).
C21_NoBatchAfterCancel ==
    [][\A t \in hist.stopped \cap DOMAIN tasks : ~BatchStarted(t)]_vars

\* task t has returned from the gather of a batch in this step
BatchFinished(t) ==
    /\ tasks[t].pc = "gather"
    /\ last'.op = "task"
    /\ t \notin DOMAIN tasks' \/ tasks'[t].pc = "done" \/ tasks'[t].i # tasks[t].i

\* C22: after each batch finishes, in start sessions and in resumed sessions
\* alike, progress equals the number of entries in completed_downloads and that
\* value is in the state file before the next batch starts.
C22_ProgressAfterBatch ==
    [][\A t \in DOMAIN tasks :
          BatchFinished(t)
          => /\ status'.progress = Cardinality(DOMAIN status'.completed_downloads)
             /\ disk'.state = "valid"
             /\ disk'.content.progress = status'.progress]_vars

\* C23: once a job id has an entry in completed_downloads, the entry is never
\* replaced by a different record while it stays in the map; entries leave the
\* map only through a new session start, clear_completed or reset.
C23_CompletedEntriesStable ==
    [][\A fid \in DOMAIN status.completed_downloads :
          IF fid \in DOMAIN status'.completed_downloads
          THEN status'.completed_downloads[fid] = status.completed_downloads[fid]
          ELSE last'.op \in {"start_selected", "start_all", "clear_completed", "reset"}]_vars

\* job ids whose entry in completed_downloads is new or rewritten in this step
Written ==
    {fid \in DOMAIN status'.completed_downloads :
        \/ fid \notin DOMAIN status.completed_downloads
        \/ status'.completed_downloads[fid] # status.completed_downloads[fid]}

C25_RegistryHoldsOnlyRunning ==
    \A sid \in DOMAIN registry : Running(registry[sid])

\* C26: when resolving the work set raises an unclassified exception, the task
\* ends (the exception stays inside it) with active = false and
\* concurrent_downloads empty, that state is the persisted one, and the
\* completed map is what it was before.
C26_TaskErrorEndsSession ==
    [][(last'.op = "task" /\ last'.out = "error")
          => /\ ~status'.active
             /\ status'.concurrent_downloads = EmptyMap
             /\ status'.completed_downloads = status.completed_downloads
             /\ disk'.state = "valid" /\ disk'.content = Snapshot(status')
             /\ \A t \in DOMAIN tasks :
                   tasks[t].pc = "fetch"
                   => \/ t \notin DOMAIN tasks'
                      \/ tasks'[t].pc \in {"fetch", "done"}]_vars

\* a task was aborted by an exception while a job was recorded as completed
C26_Witness ==
    /\ last.op = "task" /\ last.out = "error"
    /\ status.completed_downloads # EmptyMap
    /\ ~status.active

\* the state file as the programme reads it
FileContent(d) == <<d.state, d.content>>

\* C27: whenever reset or cleanup changes the in-memory or the persisted state
\* and a state file existed beforehand, a backup holding the previous content
\* of the file exists; when the backup cannot be made nothing is changed.
C27_BackupBeforeMutation ==
    [][(/\ last'.op \in {"reset", "cleanup"}
        /\ disk.state # "absent"
        /\ status' # status \/ FileContent(disk') # FileContent(disk))
          => \E b \in disk'.aside :
                /\ b.kind = "backup"
                /\ <<b.state, b.content>> = FileContent(disk)]_vars

\* C28: a successful start assigns a session_id different from the previous
\* one, sets progress = 0, cancelled = false, active = true, empties
\* completed_downloads and concurrent_downloads, and this snapshot is the
\* persisted one when the call returns, before any worker of the session exists.
C28_StartResetsAndSaves ==
    [][(last'.op \in {"start_selected", "start_all"})
          => /\ status'.session_id # status.session_id
             /\ status'.progress = 0
             /\ ~status'.cancelled
             /\ status'.active
             /\ status'.completed_downloads = EmptyMap
             /\ status'.concurrent_downloads = EmptyMap
             /\ disk'.state = "valid" /\ disk'.content = Snapshot(status')
             /\ status'.session_id \in DOMAIN tasks'
             /\ tasks'[status'.session_id].pc = "fetch"
             /\ tasks'[status'.session_id].workers = EmptyMap]_vars

\* a second session has just been started after the first one ended
C28_Witness ==
    /\ last.op \in {"start_selected", "start_all"}
    /\ status.session_id > 1
    /\ DOMAIN tasks = {status.session_id}
    /\ status.completed_downloads = EmptyMap /\ status.active

\* the task t is at its message fetch in this state and returns in this step
\* because the fetch yields no item
FoundNothing(t) ==
    /\ tasks[t].pc = "fetch"
    /\ last'.op = "task" /\ last'.out = "nothing"
    /\ t \notin DOMAIN tasks' \/ tasks'[t].pc = "done"

\* C29: when resume finds no remaining item it starts no worker and ends with
\* active = false and progress = total, and then progress equals the number of
\* entries in completed_downloads.
C29_ResumeNothingLeft ==
    [][\A t \in DOMAIN tasks :
          (tasks[t].kind = "resume" /\ FoundNothing(t))
          => /\ ~status'.active
             /\ status'.progress = status'.total
             /\ status'.progress = Cardinality(DOMAIN status'.completed_downloads)
             /\ t \in DOMAIN tasks' => tasks'[t].workers = EmptyMap]_vars

\* C30: a session whose work set resolves to zero items ends with
\* active = false and total = 0, starts no worker, takes no error branch, and
\* that state is the persisted one.
C30_EmptyWorkSetEndsSession ==
    [][\A t \in DOMAIN tasks :
          (tasks[t].kind # "resume" /\ FoundNothing(t))
          => /\ ~status'.active
             /\ status'.total = 0
             /\ disk'.state = "valid" /\ disk'.content = Snapshot(status')
             /\ t \in DOMAIN tasks' => tasks'[t].workers = EmptyMap
             /\ tasks[t].workers = EmptyMap]_vars

\* the only call so far was a start, and its task found no item
C30_Witness ==
    /\ used.ops = 1 /\ used.admin = 0
    /\ last.op = "task" /\ last.out = "nothing"
    /\ hist.work = << >>
    /\ status.total = 0 /\ ~status.active
    /\ tasks = EmptyMap

\* position (0-based) of the item m in the work set of the session started last
OriginalIndex(m) == (CHOOSE n \in 1..Len(hist.work) : hist.work[n] = m) - 1

\* C31: an item of the session's work set that is transferred by a resume has
\* the job id it had, or would have had, in the original run.
C31_JobIdStableAcrossResume ==
    \A t \in DOMAIN tasks :
       tasks[t].kind = "resume"
       => \A j \in DOMAIN tasks[t].workers :
             LET w == tasks[t].workers[j]
             IN w.m \in SeqToSet(hist.work)
                => w.fid = BatchFileId(OriginalIndex(w.m), w.m)

\* C32: active is true whenever an orchestration task or a single-file download
\* is still running and has not been cancelled; in particular a single-file
\* download that finishes during a batch session leaves active set.
C32_ActiveWhileRunning ==
    (\/ \E t \in DOMAIN tasks : Running(t) /\ t \notin hist.stopped
     \/ singles # {} /\ ~status.cancelled)
    => status.active

\* the calls that end the period that follows a cancel, and the administrative
\* calls, which are not work in flight
EndsCancelledPeriod ==
    \/ last'.op \in {"start_selected", "start_all", "resume"}
    \/ last'.op = "download_single" /\ last'.out = "begin"
    \/ last'.op \in {"clear_completed", "reset", "cleanup", "restart", "damage"}

\* C33: from the return of a successful cancel to the next start, resume or
\* single-file download call the state stays at active = false,
\* cancelled = true with the completed map unchanged: no worker, task or
\* single download that was in flight at the cancel changes them.
C33_CancelledStateStays ==
    [][(/\ ~status.active /\ status.cancelled
        /\ ~EndsCancelledPeriod)
          => /\ ~status'.active /\ status'.cancelled
             /\ status'.completed_downloads = status.completed_downloads]_vars

\* the task t takes part in this step: it is changed or dropped
Acting(t) == t \notin DOMAIN tasks' \/ tasks'[t] # tasks[t]

\* the session a task was created for: a start registers its task under the new
\* session id, which is the task's own id; a resume registers its task under
\* the session id on record
SessionOf(t) ==
    IF tasks[t].kind # "resume" THEN t
    ELSE IF \E sid \in DOMAIN registry : registry[sid] = t
         THEN CHOOSE sid \in DOMAIN registry : registry[sid] = t
         ELSE NoneInt

\* C34: a step of a worker or of an orchestration task that writes the
\* completed map, the concurrent map or progress is a step of the session
\* whose session_id is in the state (or of the task that cancel_download has
\* just cancelled): no earlier session writes into the state of a later one.
C34_OnlyCurrentSessionWrites ==
    [][(/\ last'.op \in {"worker", "task"}
        /\ \/ status'.completed_downloads # status.completed_downloads
           \/ status'.concurrent_downloads # status.concurrent_downloads
           \/ status'.progress # status.progress)
          => \A t \in DOMAIN tasks :
                Acting(t) => \/ tasks[t].pc = "cancelled"
                             \/ SessionOf(t) = status.session_id]_vars

\* C35: in every reachable state progress <= total, including after a resume
\* and after a single-file download has added a completed entry.
C35_ProgressAtMostTotal == status.progress <= status.total

\* C36: whenever download_single ends, by returning a path, by the transfer
\* returning no path, or by the transfer raising, the state has active = false
\* and no single_<id> entry for it in concurrent_downloads.
C36_SingleEndsClean ==
    [][(/\ last'.op = "download_single"
        /\ last'.out \in {"success", "failed", "raised", "cancelled"})
          => /\ ~status'.active
             /\ last'.fid \notin DOMAIN status'.concurrent_downloads]_vars

\* the resume tasks that have not yet come back from their message fetch
ResumeTasksAtFetch == {t \in DOMAIN tasks : tasks[t].kind = "resume" /\ tasks[t].pc = "fetch"}

LastCallStartedSession ==
    /\ \/ last.op \in {"start_selected", "start_all"} /\ last.out = "started"
       \/ last.op = "resume" /\ last.out = "resumed"
    /\ ~OpAllowed /\ ~AdminAllowed

\* C38: when every transfer attempt eventually ends and no further operation
\* is invoked, a session that was started or resumed eventually reaches
\* active = false with concurrent_downloads empty.
C38_SessionEventuallyEnds ==
    LastCallStartedSession
    ~> (~status.active /\ status.concurrent_downloads = EmptyMap)

\* C39: clear_completed always empties completed_downloads and persists; when
\* active = false it also resets session_id, channel, started_at, total,
\* progress and cancelled, so that a following resume has the no-session
\* outcome; when active = true it leaves session_id, channel, total and
\* progress as they are.
C39_ClearCompletedEffect ==
    [][(last'.op = "clear_completed")
          => /\ status'.completed_downloads = EmptyMap
             /\ disk'.state = "valid" /\ disk'.content = Snapshot(status')
             /\ IF ~status.active
                THEN /\ status'.session_id = NoneInt
                     /\ status'.channel = NoneStr
                     /\ status'.started_at = NoneInt
                     /\ status'.total = 0 /\ status'.progress = 0
                     /\ ~status'.cancelled
                     /\ ResumeOutcome(status') = "error"
                ELSE /\ status'.session_id = status.session_id
                     /\ status'.channel = status.channel
                     /\ status'.total = status.total
                     /\ status'.progress = status.progress]_vars

\* a session over a non-empty work set was started and is no longer active,
\* and its completed jobs and its session fields were cleared
C39_Witness ==
    /\ last.op = "clear_completed"
    /\ hist.work # << >>
    /\ disk.state = "valid" /\ disk.content.started_at = NoneInt
    /\ status.session_id = NoneInt /\ status.channel = NoneStr
    /\ status.completed_downloads = EmptyMap

====
